---- MODULE Spec2Model ----
(***************************************************************************)
(* Model of src/bin/document_sim.rs: the deterministic generator (Rng),    *)
(* the document engine (Document, DocumentStore), the relational engine    *)
(* (Row, Table, RelationalDB) and the workload driver                      *)
(* (simulate_document_store, simulate_relational_db).                      *)
(*                                                                         *)
(* A u64 / usize is a sequence of NLimbs base-256 digits, least            *)
(* significant first, so that the 64-bit recurrence is computed exactly    *)
(* with machine-sized intermediate values.  usize is 64 bits wide.         *)
(***************************************************************************)
EXTENDS Integers, Sequences, FiniteSets, TLC

VARIABLES
    rng,              \* Rng.state of the generator in use
    overflow_checks,  \* build profile: TRUE = overflow checks on (dev), FALSE = off (release)
    ret,              \* outcome of the last engine / generator call
    documents,        \* DocumentStore.documents
    tag_index,        \* DocumentStore.tag_index
    link_index,       \* DocumentStore.link_index
    tables,           \* RelationalDB.tables
    clock,            \* SystemTime::now(), seconds since the epoch
    pc,               \* position of the workload driver
    num_docs,         \* parameter of the simulate_* functions
    num_queries,      \* parameter of the simulate_* functions
    i,                \* loop counter of the generation loop
    q,                \* loop counter of the query loop
    found,            \* the driver's running hit counter
    run,              \* which full run of the benchmark is executing (1 or 2)
    first_run,        \* the datasets the first full run generated
    store_calls,      \* history: <<id, tag>> -> number of store calls for id carrying tag
    inserted,         \* history: rows accepted by insert since the table's last create_table
    inserted_ever,    \* history: rows ever accepted by insert into a table
    last_stored,      \* history: id -> the document of the latest store call for id
    last_row,         \* history: <<table, id>> -> the row of the latest accepted insert
    calls             \* history: number of calls the caller has made

vars == <<rng, overflow_checks, ret, documents, tag_index, link_index, tables,
          clock, pc, num_docs, num_queries, i, q, found, run, first_run,
          store_calls, inserted, inserted_ever, last_stored, last_row, calls>>

rngVars == <<rng, ret>>
docVars == <<documents, tag_index, link_index, store_calls, last_stored>>
relVars == <<tables, inserted, inserted_ever, last_row>>
drvVars == <<pc, num_docs, num_queries, i, q, found, run, first_run>>

(***************************************************************************)
(* 64-bit arithmetic on limbs                                              *)
(***************************************************************************)
NLimbs == 8
Base == 256

Limbs == 1..NLimbs

Zero64 == [k \in Limbs |-> 0]

RECURSIVE ToLimbsFrom(_, _)
ToLimbsFrom(n, k) ==
    IF k > NLimbs THEN <<>> ELSE <<n % Base>> \o ToLimbsFrom(n \div Base, k + 1)

\* a small natural number as a u64
ToLimbs(n) == ToLimbsFrom(n, 1)

\* TRUE iff the u64 fits the small range the driver's values live in
IsSmall(a) == \A k \in 4..NLimbs : a[k] = 0

\* the value of a u64 below 2^24
ToInt(a) == a[1] + Base * a[2] + Base * Base * a[3]

RECURSIVE LessFrom(_, _, _)
LessFrom(a, b, k) ==
    IF k = 0 THEN FALSE
    ELSE IF a[k] # b[k] THEN a[k] < b[k]
    ELSE LessFrom(a, b, k - 1)

\* a < b on u64
Less(a, b) == LessFrom(a, b, NLimbs)

RECURSIVE AddFrom(_, _, _, _)
AddFrom(a, b, k, carry) ==
    IF k > NLimbs THEN <<carry>>
    ELSE LET t == a[k] + b[k] + carry
         IN  <<t % Base>> \o AddFrom(a, b, k + 1, t \div Base)

\* a + b on u64: the wrapped sum and the carry out of bit 63
WrappingAdd(a, b) == SubSeq(AddFrom(a, b, 1, 0), 1, NLimbs)
AddCarries(a, b) == AddFrom(a, b, 1, 0)[NLimbs + 1] = 1

RECURSIVE MulAddFrom(_, _, _, _, _)
MulAddFrom(a, m, c, k, carry) ==
    IF k > NLimbs THEN <<>>
    ELSE LET t == a[k] * m + c[k] + carry
         IN  <<t % Base>> \o MulAddFrom(a, m, c, k + 1, t \div Base)

\* a.wrapping_mul(m).wrapping_add(c) for a small multiplier m
WrappingMulAdd(a, m, c) == MulAddFrom(a, m, c, 1, 0)

RECURSIVE RemFrom(_, _, _, _)
RemFrom(a, m, k, r) ==
    IF k = 0 THEN r ELSE RemFrom(a, m, k - 1, (r * Base + a[k]) % m)

\* a % m for a small modulus m > 0
Rem(a, m) == RemFrom(a, m, NLimbs, 0)

(***************************************************************************)
(* Rng                                                                     *)
(***************************************************************************)
Multiplier == 1664525
Increment == 1013904223
Seed == 42

\* Rng::new
RngNew(seed) == ToLimbs(seed)

\* Rng::next: the new state, which is also the value returned
next(state) == WrappingMulAdd(state, Multiplier, ToLimbs(Increment))

Panic(msg) == [kind |-> "panic", msg |-> msg]
Value64(v) == [kind |-> "value", val |-> v]

\* Rng::gen_range: min + (self.next() as usize) % (max - min).
\* max - min underflows when max < min: a panic under overflow checks, a
\* wrap to 2^64 - (min - max) without them; then x % (2^64 - d) is x when
\* x + d does not carry and x + d - 2^64 when it does, and min + _ wraps.
\* max = min is a remainder by zero, a panic in every build.
gen_range(state, min, max, checks) ==
    LET x == next(state) IN
    IF max < min THEN
        IF checks THEN Panic("attempt to subtract with overflow")
        ELSE LET d == ToLimbs(min - max)
                 r == IF AddCarries(x, d) THEN WrappingAdd(x, d) ELSE x
             IN  Value64(WrappingAdd(ToLimbs(min), r))
    ELSE IF max = min THEN
        Panic("attempt to calculate the remainder with a divisor of zero")
    ELSE Value64(ToLimbs(min + Rem(x, max - min)))

\* Rng::gen_bool: (self.next() as f64 / u64::MAX as f64) < prob.
\* u64::MAX as f64 is 2^64 and x as f64 rounds x to 53 bits, to nearest,
\* ties to even, so the test is x < T(prob) for the u64 T(prob) below:
\*   0.7 -> 0xb333333333332c00, 0.3 -> 0x4cccccccccccca01,
\*   0.4 -> 0x6666666666666600.  prob is given in tenths.
Threshold(tenths) ==
    CASE tenths = 7 -> <<0, 44, 51, 51, 51, 51, 51, 179>>
      [] tenths = 3 -> <<1, 202, 204, 204, 204, 204, 204, 76>>
      [] tenths = 4 -> <<0, 102, 102, 102, 102, 102, 102, 102>>

gen_bool(state, tenths) == Less(next(state), Threshold(tenths))

(***************************************************************************)
(* Value, and its derived Debug format                                     *)
(***************************************************************************)
String(s) == [s |-> s]
Number(n) == [n |-> n]
\* Object(HashMap<String, Value>): m is the map, order the order in which
\* this HashMap instance iterates its keys (its random hasher decides it)
Object(m, order) == [m |-> m, order |-> order]

IsString(v) == DOMAIN v = {"s"}
IsNumber(v) == DOMAIN v = {"n"}
IsObject(v) == DOMAIN v = {"m", "order"}

\* format!("{:?}", s) of a String without characters to escape
StrDebug(s) == "\"" \o s \o "\""

RECURSIVE EntriesDebug(_, _)
RECURSIVE Debug(_)
\* the entries of a HashMap in Debug format, keys in iteration order `order`
EntriesDebug(m, order) ==
    IF order = <<>> THEN ""
    ELSE StrDebug(Head(order)) \o ": " \o Debug(m[Head(order)])
         \o (IF Len(order) > 1 THEN ", " ELSE "")
         \o EntriesDebug(m, Tail(order))

\* format!("{:?}", val) of a Value (derive(Debug)): the variant's name and
\* its field; a HashMap prints its entries in its iteration order
Debug(val) ==
    IF IsString(val) THEN "String(" \o StrDebug(val.s) \o ")"
    ELSE IF IsNumber(val) THEN "Number(" \o ToString(val.n) \o ")"
    ELSE "Object({" \o EntriesDebug(val.m, val.order) \o "})"

\* Option<T>
None == [kind |-> "None"]
Some(v) == [kind |-> "Some", val |-> v]

Range(f) == {f[x] : x \in DOMAIN f}

(***************************************************************************)
(* Document                                                                *)
(***************************************************************************)
EstimatedSize == 100

\* Document::new, `now` being SystemTime::now() in seconds
Document_new(id, data, now) ==
    [id |-> id, created_at |-> now, updated_at |-> now, version |-> 1,
     size_bytes |-> EstimatedSize, data |-> data, links |-> <<>>, tags |-> <<>>]

\* Document::add_link: HashMap::insert replaces the target of an existing rel
add_link(d, rel, target) ==
    [d EXCEPT !.links = (rel :> target) @@ d.links]

\* add_tag without its contains test
AddTagUnchecked(d, tag) == [d EXCEPT !.tags = Append(d.tags, tag)]

\* Document::add_tag
add_tag(d, tag) ==
    IF tag \in Range(d.tags) THEN d ELSE [d EXCEPT !.tags = Append(d.tags, tag)]

(***************************************************************************)
(* DocumentStore                                                           *)
(***************************************************************************)
\* DocumentStore::new
DocumentStore_new == [documents |-> <<>>, tag_index |-> <<>>, link_index |-> <<>>]

\* index.insert(key, vec![id]) in place of entry(key).or_default().push(id)
PushReplacing(index, key, id) == (key :> <<id>>) @@ index

\* index.entry(key).or_default().push(id)
Push(index, key, id) ==
    IF key \in DOMAIN index THEN [index EXCEPT ![key] = Append(@, id)]
    ELSE (key :> <<id>>) @@ index

RECURSIVE PushTags(_, _, _)
\* for tag in &doc.tags { tag_index.entry(tag).or_default().push(doc.id) }
PushTags(index, tags, id) ==
    IF tags = <<>> THEN index
    ELSE PushTags(Push(index, Head(tags), id), Tail(tags), id)

RECURSIVE PushLinks(_, _, _, _)
\* for target in doc.links.values() { link_index.entry(target).or_default().push(doc.id) }
\* Every push appends the same doc.id, so the order in which the HashMap
\* yields its values does not show in the result: `rels` is any enumeration.
PushLinks(index, links, rels, id) ==
    IF rels = {} THEN index
    ELSE LET rel == CHOOSE r \in rels : TRUE
         IN  PushLinks(Push(index, links[rel], id), links, rels \ {rel}, id)

\* store with the index updates but without documents.insert
StoreIndexOnly(s, d) ==
    [documents  |-> s.documents,
     tag_index  |-> PushTags(s.tag_index, d.tags, d.id),
     link_index |-> PushLinks(s.link_index, d.links, DOMAIN d.links, d.id)]

\* DocumentStore::store
store(s, d) ==
    [documents  |-> (d.id :> d) @@ s.documents,
     tag_index  |-> PushTags(s.tag_index, d.tags, d.id),
     link_index |-> PushLinks(s.link_index, d.links, DOMAIN d.links, d.id)]

\* DocumentStore::get
get(s, id) == IF id \in DOMAIN s.documents THEN Some(s.documents[id]) ELSE None

RECURSIVE FilterMap(_, _)
\* ids.iter().filter_map(|id| map.get(id)).collect()
FilterMap(ids, map) ==
    IF ids = <<>> THEN <<>>
    ELSE (IF Head(ids) \in DOMAIN map THEN <<map[Head(ids)]>> ELSE <<>>)
         \o FilterMap(Tail(ids), map)

\* DocumentStore::find_by_tag
find_by_tag(s, tag) ==
    IF tag \in DOMAIN s.tag_index THEN FilterMap(s.tag_index[tag], s.documents)
    ELSE <<>>

\* DocumentStore::find_linked_to
find_linked_to(s, target) ==
    IF target \in DOMAIN s.link_index THEN FilterMap(s.link_index[target], s.documents)
    ELSE <<>>

\* the DocumentStore held in the variables
Store == [documents |-> documents, tag_index |-> tag_index, link_index |-> link_index]

(***************************************************************************)
(* The document engine under any sequence of store calls                   *)
(***************************************************************************)
MaxStores == 2

Ids == {"doc_0", "doc_1"}

\* the add_tag calls a caller makes on a new document, in order
TagCalls == {<<>>, <<"a">>, <<"b">>, <<"a", "b">>, <<"b", "a">>, <<"a", "a">>}

\* the add_link calls <<rel, target>> a caller makes on a new document, in order
LinkCalls ==
    {<<>>,
     << <<"references", "doc_0">> >>,
     << <<"references", "doc_1">> >>,
     << <<"parent", "doc_0">> >>,
     << <<"references", "doc_0">>, <<"parent", "doc_0">> >>,
     << <<"references", "doc_0">>, <<"parent", "doc_1">> >>,
     << <<"references", "doc_0">>, <<"references", "doc_1">> >>}

RECURSIVE AddTags(_, _)
AddTags(d, cs) ==
    IF cs = <<>> THEN d ELSE AddTags(add_tag(d, Head(cs)), Tail(cs))

RECURSIVE AddLinks(_, _)
AddLinks(d, cs) ==
    IF cs = <<>> THEN d
    ELSE AddLinks(add_link(d, Head(cs)[1], Head(cs)[2]), Tail(cs))

\* a caller's document: Document::new, then add_tag and add_link calls
Build(id, data, now, tagCalls, linkCalls) ==
    AddLinks(AddTags(Document_new(id, data, now), tagCalls), linkCalls)

TitleOf(id) == Object("title" :> String(id), <<"title">>)

NoCalls == <<>>
NeverStored == <<>>

\* the number of store calls made for id with a document carrying tag
CallsFor(id, tag) ==
    IF <<id, tag>> \in DOMAIN store_calls THEN store_calls[<<id, tag>>] ELSE 0

\* the document of the latest store call for id, if any
LastStored(id) == IF id \in DOMAIN last_stored THEN Some(last_stored[id]) ELSE None

InitDocVars ==
    /\ documents = DocumentStore_new.documents
    /\ tag_index = DocumentStore_new.tag_index
    /\ link_index = DocumentStore_new.link_index
    /\ store_calls = NoCalls
    /\ last_stored = NeverStored

\* store.store(d), with the history of the call
StoreDoc(d) ==
    LET s == store(Store, d) IN
    /\ documents' = s.documents
    /\ tag_index' = s.tag_index
    /\ link_index' = s.link_index
    /\ store_calls' = [p \in DOMAIN store_calls \cup ({d.id} \X Range(d.tags)) |->
                          CallsFor(p[1], p[2])
                          + (IF p[1] = d.id /\ p[2] \in Range(d.tags) THEN 1 ELSE 0)]
    /\ last_stored' = (d.id :> d) @@ last_stored

DocStore ==
    /\ calls < MaxStores
    /\ \E id \in Ids, tc \in TagCalls, lc \in LinkCalls :
          StoreDoc(Build(id, TitleOf(id), clock, tc, lc))
    /\ calls' = calls + 1
    /\ UNCHANGED <<rngVars, overflow_checks, clock, relVars, drvVars>>

(***************************************************************************)
(* Row, Table, RelationalDB                                                *)
(***************************************************************************)
\* Table::new
Table_new(name) == [name |-> name, rows |-> <<>>, indexes |-> <<>>]

\* indexes.entry(col).or_default().entry(val_str).or_default().push(id)
PushIndex(indexes, col, val_str, id) ==
    IF col \in DOMAIN indexes THEN [indexes EXCEPT ![col] = Push(@, val_str, id)]
    ELSE (col :> (val_str :> <<id>>)) @@ indexes

RECURSIVE IndexRow(_, _, _)
\* for (col, val) in &row.data { ... push(row.id) }.  The columns of a row
\* are distinct keys, each pushing into its own indexes[col], so the order
\* in which the HashMap yields them does not show in the result.
IndexRow(indexes, row, cols) ==
    IF cols = {} THEN indexes
    ELSE LET col == CHOOSE c \in cols : TRUE
         IN  IndexRow(PushIndex(indexes, col, Debug(row.data[col]), row.id),
                      row, cols \ {col})

\* insert that replaces the row map by the new row alone
TableInsertForgetting(t, row) ==
    [t EXCEPT !.indexes = IndexRow(t.indexes, row, DOMAIN row.data),
              !.rows = (row.id :> row)]

\* Table::insert
Table_insert(t, row) ==
    [t EXCEPT !.indexes = IndexRow(t.indexes, row, DOMAIN row.data),
              !.rows = (row.id :> row) @@ t.rows]

\* Table::get
Table_get(t, id) == IF id \in DOMAIN t.rows THEN Some(t.rows[id]) ELSE None

\* Table::find_by_column
find_by_column(t, col, val) ==
    IF col \in DOMAIN t.indexes /\ val \in DOMAIN t.indexes[col]
    THEN FilterMap(t.indexes[col][val], t.rows)
    ELSE <<>>

\* RelationalDB::new
RelationalDB_new == <<>>

\* RelationalDB::create_table
create_table(db, name) == (name :> Table_new(name)) @@ db

\* insert that creates the table it does not find
InsertCreating(db, name, row) ==
    IF name \in DOMAIN db THEN [db EXCEPT ![name] = Table_insert(@, row)]
    ELSE (name :> Table_insert(Table_new(name), row)) @@ db

\* RelationalDB::insert
insert(db, name, row) ==
    IF name \in DOMAIN db THEN [db EXCEPT ![name] = Table_insert(@, row)] ELSE db

\* the driver's direct lookup: db.tables.get(name).unwrap().get(&id)
DirectLookup(db, name, id) ==
    IF name \in DOMAIN db THEN [kind |-> "value", val |-> Table_get(db[name], id)]
    ELSE Panic("called Option::unwrap() on a None value")

\* the driver's column search:
\* if let Some(t) = db.tables.get(name) { t.find_by_column(col, val) }
ColumnSearch(db, name, col, val) ==
    IF name \in DOMAIN db THEN find_by_column(db[name], col, val) ELSE <<>>

(***************************************************************************)
(* The relational engine under any sequence of create_table and insert     *)
(***************************************************************************)
MaxRelOps == 4

TableNames == {"documents", "tags"}
RowIds == {"doc_0", "doc_1"}

XY == ("x" :> Number(1)) @@ ("y" :> Number(2))

\* the column maps of the rows a caller inserts; the two Objects are equal
\* maps held in HashMap instances that iterate in different orders
RowDatas ==
    {("tag" :> String("a")),
     ("tag" :> String("5")),
     ("tag" :> Number(5)),
     ("tag" :> String("a")) @@ ("score" :> Number(5)),
     ("tag" :> Object(XY, <<"x", "y">>)),
     ("tag" :> Object(XY, <<"y", "x">>))}

Row(id, data) == [id |-> id, data |-> data]

\* the index entries insert makes for a row: <<row id, column, index key>>
EntriesOf(row) == {<<row.id, col, Debug(row.data[col])>> : col \in DOMAIN row.data}

InitRelVars ==
    /\ tables = RelationalDB_new
    /\ inserted = [n \in TableNames |-> {}]
    /\ inserted_ever = [n \in TableNames |-> {}]
    /\ last_row = [p \in TableNames \X RowIds |-> None]

CreateTable ==
    /\ calls < MaxRelOps
    /\ \E name \in TableNames :
          /\ tables' = create_table(tables, name)
          /\ inserted' = [inserted EXCEPT ![name] = {}]
          /\ ret' = [op |-> "create_table", table |-> name]
    /\ calls' = calls + 1
    /\ UNCHANGED <<rng, inserted_ever, last_row, overflow_checks, clock, docVars, drvVars>>

Insert ==
    /\ calls < MaxRelOps
    /\ \E name \in TableNames, id \in RowIds, data \in RowDatas :
          LET row == Row(id, data)
              accepted == name \in DOMAIN tables
          IN  /\ tables' = insert(tables, name, row)
              /\ inserted' = IF accepted
                             THEN [inserted EXCEPT ![name] = @ \cup EntriesOf(row)]
                             ELSE inserted
              /\ inserted_ever' = IF accepted
                                  THEN [inserted_ever EXCEPT ![name] = @ \cup EntriesOf(row)]
                                  ELSE inserted_ever
              /\ last_row' = IF accepted
                             THEN [last_row EXCEPT ![<<name, id>>] = Some(row)]
                             ELSE last_row
              /\ ret' = [op |-> "insert", table |-> name, row |-> row]
    /\ calls' = calls + 1
    /\ UNCHANGED <<rng, overflow_checks, clock, docVars, drvVars>>

(***************************************************************************)
(* The generator under any sequence of calls                               *)
(***************************************************************************)
MaxDraws == 3
MaxArg == 3

\* the states generators start from: Rng::new(42), Rng::new(0), and the
\* seed 0xe0c01f1d26f5b720, whose successor is u64::MAX
SeedStates == {RngNew(Seed), RngNew(0), <<32, 183, 245, 38, 29, 31, 192, 224>>}

Probabilities == {3, 4, 7}

Called(op, min, max, out) == [op |-> op, min |-> min, max |-> max, out |-> out]

NotCalled == Called("none", 0, 0, Value64(Zero64))

InitRngVars ==
    /\ rng = RngNew(Seed)
    /\ ret = NotCalled

\* a panic unwinds out of main: the process makes no further call
Running == ret.out.kind # "panic"

RngNext ==
    /\ Running /\ calls < MaxDraws
    /\ rng' = next(rng)
    /\ ret' = Called("next", 0, 0, Value64(next(rng)))
    /\ calls' = calls + 1
    /\ UNCHANGED <<overflow_checks, clock, docVars, relVars, drvVars>>

GenRange ==
    /\ Running /\ calls < MaxDraws
    /\ \E min \in 0..MaxArg, max \in 0..MaxArg :
          ret' = Called("gen_range", min, max, gen_range(rng, min, max, overflow_checks))
    /\ rng' = next(rng)
    /\ calls' = calls + 1
    /\ UNCHANGED <<overflow_checks, clock, docVars, relVars, drvVars>>

GenBool ==
    /\ Running /\ calls < MaxDraws
    /\ \E p \in Probabilities :
          ret' = Called("gen_bool", p, 0, [kind |-> "bool", val |-> gen_bool(rng, p)])
    /\ rng' = next(rng)
    /\ calls' = calls + 1
    /\ UNCHANGED <<overflow_checks, clock, docVars, relVars, drvVars>>

(***************************************************************************)
(* The workload driver                                                     *)
(***************************************************************************)
MaxDocs == 3
MaxQueries == 3
MaxClock == 2

\* format!("doc_{}", i)
DocId(k) == "doc_" \o ToString(k)
\* format!("tag_{}", k)
TagName(k) == "tag_" \o ToString(k)

DataKeys == <<"title", "content", "score", "category">>

\* the value a gen_range call returns to the driver
Drawn(state, min, max, checks) == ToInt(gen_range(state, min, max, checks).val)

\* one iteration of the generation loop of simulate_document_store:
\* the generator state after it and the document it stores
DocGenIter(r0, k, now, checks) ==
    LET score  == Drawn(r0, 1, 100, checks)
        r1     == next(r0)
        cat    == Drawn(r1, 1, 10, checks)
        r2     == next(r1)
        data   == Object(("title" :> String("Document " \o ToString(k)))
                      @@ ("content" :> String("Content for document " \o ToString(k)))
                      @@ ("score" :> Number(score))
                      @@ ("category" :> String("cat_" \o ToString(cat))),
                         DataKeys)
        d0     == Document_new(DocId(k), data, now)
        tagged == gen_bool(r2, 7)
        r3     == next(r2)
        d1     == IF tagged THEN add_tag(d0, TagName(Drawn(r3, 1, 20, checks))) ELSE d0
        r4     == IF tagged THEN next(r3) ELSE r3
        marked == gen_bool(r4, 3)
        r5     == next(r4)
        d2     == IF marked THEN add_tag(d1, "important") ELSE d1
        linked == k > 0 /\ gen_bool(r5, 4)
        r6     == IF k > 0 THEN next(r5) ELSE r5
        d3     == IF linked
                  THEN add_link(d2, "references", DocId(Drawn(r6, 0, k, checks)))
                  ELSE d2
        r7     == IF linked THEN next(r6) ELSE r6
    IN  [rng |-> r7, doc |-> d3]

\* one iteration of the generation loop of simulate_relational_db:
\* the generator state after it and the database after its inserts
RelGenIter(r0, k, db, checks) ==
    LET score  == Drawn(r0, 1, 100, checks)
        r1     == next(r0)
        cat    == Drawn(r1, 1, 10, checks)
        r2     == next(r1)
        data   == ("title" :> String("Document " \o ToString(k)))
                  @@ ("content" :> String("Content for document " \o ToString(k)))
                  @@ ("score" :> Number(score))
                  @@ ("category" :> String("cat_" \o ToString(cat)))
        db1    == insert(db, "documents", Row(DocId(k), data))
        tagged == gen_bool(r2, 7)
        r3     == next(r2)
        tag    == Drawn(r3, 1, 20, checks)
        db2    == IF tagged
                  THEN insert(db1, "tags",
                              Row("tag_" \o ToString(k) \o "_" \o ToString(1),
                                  ("doc_id" :> String(DocId(k)))
                                  @@ ("tag" :> String(TagName(tag)))))
                  ELSE db1
        r4     == IF tagged THEN next(r3) ELSE r3
        linked == k > 0 /\ gen_bool(r4, 4)
        r5     == IF k > 0 THEN next(r4) ELSE r4
        target == Drawn(r5, 0, k, checks)
        db3    == IF linked
                  THEN insert(db2, "links",
                              Row("link_" \o ToString(k) \o "_" \o ToString(target),
                                  ("from_id" :> String(DocId(k)))
                                  @@ ("to_id" :> String(DocId(target)))
                                  @@ ("relationship" :> String("references"))))
                  ELSE db2
        r6     == IF linked THEN next(r5) ELSE r5
    IN  [rng |-> r6, db |-> db3]

Hits(n, r) == [kind |-> "value", hits |-> n, rng |-> r]
Abort(out, r) == [kind |-> "panic", msg |-> out.msg, rng |-> r]

\* one iteration of the query loop of simulate_document_store: the hits it
\* adds to found and the generator state after it, or the panic of a draw
DocQueryIter(r0, n, s, checks) ==
    LET kind == Drawn(r0, 0, 4, checks)
        r1   == next(r0)
        arg  == gen_range(r1, 0, n, checks)
        r2   == next(r1)
    IN  IF kind = 0 THEN
            IF arg.kind = "panic" THEN Abort(arg, r2)
            ELSE Hits(IF get(s, DocId(ToInt(arg.val))).kind = "Some" THEN 1 ELSE 0, r2)
        ELSE IF kind = 1 THEN
            Hits(Len(find_by_tag(s, TagName(Drawn(r1, 1, 20, checks)))), r2)
        ELSE IF kind = 2 THEN
            IF arg.kind = "panic" THEN Abort(arg, r2)
            ELSE Hits(Len(find_linked_to(s, DocId(ToInt(arg.val)))), r2)
        ELSE Hits(Len(find_by_tag(s, "important")), r1)

\* one iteration of the query loop of simulate_relational_db
RelQueryIter(r0, n, db, checks) ==
    LET kind == Drawn(r0, 0, 3, checks)
        r1   == next(r0)
        arg  == gen_range(r1, 0, n, checks)
        r2   == next(r1)
    IN  IF kind = 0 THEN
            IF arg.kind = "panic" THEN Abort(arg, r2)
            ELSE LET row == DirectLookup(db, "documents", DocId(ToInt(arg.val)))
                 IN  IF row.kind = "panic" THEN Abort(row, r2)
                     ELSE Hits(IF row.val.kind = "Some" THEN 1 ELSE 0, r2)
        ELSE IF kind = 1 THEN
            Hits(Len(ColumnSearch(db, "tags", "tag",
                                  StrDebug(TagName(Drawn(r1, 1, 20, checks))))), r2)
        ELSE
            IF arg.kind = "panic" THEN Abort(arg, r2)
            ELSE Hits(Len(ColumnSearch(db, "links", "to_id",
                                       StrDebug(DocId(ToInt(arg.val))))), r2)

NoDataset == [documents |-> <<>>, tables |-> <<>>]

InitDrvVars ==
    /\ pc = "idle"
    /\ num_docs = 0
    /\ num_queries = 0
    /\ i = 0
    /\ q = 0
    /\ found = 0
    /\ run = 1
    /\ first_run = NoDataset

\* for i in 0..num_docs (simulate_document_store): one iteration
DocGenerate ==
    /\ pc = "doc_gen" /\ i < num_docs
    /\ LET it == DocGenIter(rng, i, clock, overflow_checks) IN
          /\ rng' = it.rng
          /\ StoreDoc(it.doc)
    /\ i' = i + 1
    /\ UNCHANGED <<ret, overflow_checks, clock, relVars, calls,
                   pc, num_docs, num_queries, q, found, run, first_run>>

\* the generation loop of simulate_document_store ends; found = 0
DocStartQueries ==
    /\ pc = "doc_gen" /\ i = num_docs
    /\ pc' = "doc_query"
    /\ q' = 0
    /\ found' = 0
    /\ UNCHANGED <<rngVars, overflow_checks, clock, docVars, relVars, calls,
                   num_docs, num_queries, i, run, first_run>>

\* for _ in 0..num_queries (simulate_document_store): one iteration
DocQuery ==
    /\ pc = "doc_query" /\ q < num_queries
    /\ LET it == DocQueryIter(rng, num_docs, Store, overflow_checks) IN
          /\ rng' = it.rng
          /\ IF it.kind = "panic"
             THEN /\ pc' = "panic"
                  /\ ret' = Called("gen_range", 0, num_docs, Panic(it.msg))
                  /\ UNCHANGED <<q, found>>
             ELSE /\ found' = found + it.hits
                  /\ q' = q + 1
                  /\ UNCHANGED <<pc, ret>>
    /\ UNCHANGED <<overflow_checks, clock, docVars, relVars, calls,
                   num_docs, num_queries, i, run, first_run>>

\* simulate_document_store returns; simulate_relational_db starts with a
\* generator of the same seed and creates its three tables
RelStart ==
    /\ pc = "doc_query" /\ q = num_queries
    /\ pc' = "rel_gen"
    /\ rng' = RngNew(Seed)
    /\ tables' = create_table(create_table(create_table(RelationalDB_new,
                     "documents"), "tags"), "links")
    /\ i' = 0
    /\ UNCHANGED <<ret, overflow_checks, clock, docVars, calls, inserted, inserted_ever,
                   last_row, num_docs, num_queries, q, found, run, first_run>>

\* for i in 0..num_docs (simulate_relational_db): one iteration
RelGenerate ==
    /\ pc = "rel_gen" /\ i < num_docs
    /\ LET it == RelGenIter(rng, i, tables, overflow_checks) IN
          /\ rng' = it.rng
          /\ tables' = it.db
    /\ i' = i + 1
    /\ UNCHANGED <<ret, overflow_checks, clock, docVars, calls, inserted, inserted_ever,
                   last_row, pc, num_docs, num_queries, q, found, run, first_run>>

\* the generation loop of simulate_relational_db ends; found = 0
RelStartQueries ==
    /\ pc = "rel_gen" /\ i = num_docs
    /\ pc' = "rel_query"
    /\ q' = 0
    /\ found' = 0
    /\ UNCHANGED <<rngVars, overflow_checks, clock, docVars, relVars, calls,
                   num_docs, num_queries, i, run, first_run>>

\* for _ in 0..num_queries (simulate_relational_db): one iteration
RelQuery ==
    /\ pc = "rel_query" /\ q < num_queries
    /\ LET it == RelQueryIter(rng, num_docs, tables, overflow_checks) IN
          /\ rng' = it.rng
          /\ IF it.kind = "panic"
             THEN /\ pc' = "panic"
                  /\ ret' = Called("gen_range", 0, num_docs, Panic(it.msg))
                  /\ UNCHANGED <<q, found>>
             ELSE /\ found' = found + it.hits
                  /\ q' = q + 1
                  /\ UNCHANGED <<pc, ret>>
    /\ UNCHANGED <<overflow_checks, clock, docVars, relVars, calls,
                   num_docs, num_queries, i, run, first_run>>

\* simulate_relational_db returns: the run is over.  After the first run
\* the benchmark is run again with the same parameters: a fresh generator
\* and a fresh DocumentStore (simulate_document_store, first two lines).
RunEnd ==
    /\ pc = "rel_query" /\ q = num_queries
    /\ IF run = 1
       THEN /\ run' = 2
            /\ first_run' = [documents |-> documents, tables |-> tables]
            /\ pc' = "doc_gen"
            /\ rng' = RngNew(Seed)
            /\ documents' = DocumentStore_new.documents
            /\ tag_index' = DocumentStore_new.tag_index
            /\ link_index' = DocumentStore_new.link_index
            /\ store_calls' = NoCalls
            /\ last_stored' = NeverStored
            /\ i' = 0
       ELSE /\ pc' = "done"
            /\ UNCHANGED <<run, first_run, rng, docVars, i>>
    /\ UNCHANGED <<ret, overflow_checks, clock, relVars, calls,
                   num_docs, num_queries, q, found>>

\* the wall clock advances
Tick ==
    /\ pc \notin {"done", "panic"}
    /\ clock < MaxClock
    /\ clock' = clock + 1
    /\ UNCHANGED <<rngVars, overflow_checks, docVars, relVars, drvVars, calls>>

(***************************************************************************)
(* Specifications                                                          *)
(***************************************************************************)
\* the generator alone, called in any order with any arguments
InitRng ==
    /\ rng \in SeedStates
    /\ ret = NotCalled
    /\ overflow_checks \in BOOLEAN
    /\ clock = 0 /\ calls = 0
    /\ InitDocVars /\ InitRelVars /\ InitDrvVars

NextRng == RngNext \/ GenRange \/ GenBool

SpecRng == InitRng /\ [][NextRng]_vars

\* the document engine alone, under any sequence of store calls
InitDoc ==
    /\ InitRngVars
    /\ overflow_checks = TRUE
    /\ clock = 0 /\ calls = 0
    /\ InitDocVars /\ InitRelVars /\ InitDrvVars

NextDoc == DocStore

SpecDoc == InitDoc /\ [][NextDoc]_vars

\* the relational engine alone, under any sequence of create_table and insert calls
InitRel ==
    /\ InitRngVars
    /\ overflow_checks = TRUE
    /\ clock = 0 /\ calls = 0
    /\ InitDocVars /\ InitRelVars /\ InitDrvVars

NextRel == CreateTable \/ Insert

SpecRel == InitRel /\ [][NextRel]_vars

\* two full runs of the benchmark with the same parameters
Init ==
    /\ InitRngVars
    /\ overflow_checks \in BOOLEAN
    /\ clock = 0 /\ calls = 0
    /\ InitDocVars /\ InitRelVars
    /\ pc = "doc_gen"
    /\ num_docs \in 0..MaxDocs
    /\ num_queries \in 0..MaxQueries
    /\ i = 0 /\ q = 0 /\ found = 0
    /\ run = 1
    /\ first_run = NoDataset

Next ==
    \/ DocGenerate \/ DocStartQueries \/ DocQuery
    \/ RelStart \/ RelGenerate \/ RelStartQueries \/ RelQuery
    \/ RunEnd \/ Tick

Spec == Init /\ [][Next]_vars

(***************************************************************************)
(* Properties                                                              *)
(***************************************************************************)
IdsOf(docs) == {docs[k].id : k \in 1..Len(docs)}
Count(docs, id) == Cardinality({k \in 1..Len(docs) : docs[k].id = id})
IsPrefix(a, b) == Len(a) <= Len(b) /\ SubSeq(b, 1, Len(a)) = a

RowsOf(db, name) == Range(db[name].rows)

\* the tag_k tags the tags table gives document id
TagsInTable(db, id) ==
    {r.data["tag"].s : r \in {x \in RowsOf(db, "tags") : x.data["doc_id"] = String(id)}}

\* the targets of the references links the links table gives document id
LinksInTable(db, id) ==
    {r.data["to_id"].s : r \in {x \in RowsOf(db, "links") :
                                   /\ x.data["from_id"] = String(id)
                                   /\ x.data["relationship"] = String("references")}}

\* C1: once both engines of a run have generated their num_docs records,
\* record k has the same score and category in both, the same tag_k tags
\* and the same references link targets, for every k below num_docs.
C1_Parity ==
    pc = "rel_query" =>
        \A k \in 0..(num_docs - 1) :
            LET d   == documents[DocId(k)]
                row == tables["documents"].rows[DocId(k)]
            IN  /\ d.data.m["score"] = row.data["score"]
                /\ d.data.m["category"] = row.data["category"]
                /\ Range(d.tags) \ {"important"} = TagsInTable(tables, DocId(k))
                /\ {d.links[rel] : rel \in DOMAIN d.links \cap {"references"}}
                       = LinksInTable(tables, DocId(k))

\* C2: when the second full run ends, every document and every row it
\* generated equals the one the first run generated, field by field.
C2_SameDataset ==
    pc = "done" => /\ documents = first_run.documents
                   /\ tables = first_run.tables

\* C3: every id in a list of tag_index or link_index is the id of a
\* document present in documents.
C3_IndexedIdsStored ==
    /\ \A t \in DOMAIN tag_index : Range(tag_index[t]) \subseteq DOMAIN documents
    /\ \A t \in DOMAIN link_index : Range(link_index[t]) \subseteq DOMAIN documents

C3_Witness ==
    /\ \E t \in DOMAIN tag_index : Len(tag_index[t]) = 2 /\ Cardinality(Range(tag_index[t])) = 1
    /\ \E t \in DOMAIN link_index : t \notin DOMAIN documents /\ link_index[t] # <<>>

\* C4: for every stored document d and every tag t of d, d appears in
\* find_by_tag(t) as many times as store was called for d's id with a
\* document carrying t.
C4_OncePerStore ==
    \A id \in DOMAIN documents :
        \A t \in Range(documents[id].tags) :
            Count(find_by_tag(Store, t), id) = CallsFor(id, t)

C4_Witness ==
    \E id \in DOMAIN documents :
        \E t \in Range(documents[id].tags) :
            /\ CallsFor(id, t) = 2
            /\ Len(find_by_tag(Store, t)) = 2

\* C5 as stated: every row ever accepted by insert into table T with
\* column c indexed under key s is among find_by_column(T, c, s).
C5_EverInsertedFound ==
    \A name \in TableNames :
        \A e \in inserted_ever[name] :
            e[1] \in IdsOf(ColumnSearch(tables, name, e[2], e[3]))

\* C5, amended: every row accepted by insert into table T since the last
\* create_table(T), with column c holding v, is among
\* find_by_column(T, c, s) for the Debug string s of v.
C5_InsertedFound ==
    \A name \in TableNames :
        \A e \in inserted[name] :
            /\ name \in DOMAIN tables
            /\ e[1] \in IdsOf(find_by_column(tables[name], e[2], e[3]))

C5_Witness ==
    \E name \in TableNames :
        /\ inserted_ever[name] # inserted[name]
        /\ \E e \in inserted[name] :
              find_by_column(tables[name], e[2], e[3]) # <<>>

\* C6, the document engine: get(id) is the document of the latest store
\* call for id, and None when there was none.
C6_DocGet == \A id \in Ids : get(Store, id) = LastStored(id)

\* C6, the relational engine: the lookup of id in table name does not
\* abort, and yields the row of the latest accepted insert of id into
\* name, None when there was none or when the table does not exist.
C6_RelGet ==
    \A name \in TableNames, id \in RowIds :
        LET r == DirectLookup(tables, name, id)
        IN  /\ r.kind = "value"
            /\ r.val = last_row[<<name, id>>]

\* C6: get returns the document or row most recently stored under the id,
\* and an absent result, never an abort, for an id never stored or a table
\* that does not exist.
C6_Get == C6_DocGet /\ C6_RelGet

\* C7: an insert into a table that was never created changes no table,
\* creates none, and a column search on that name afterwards is empty.
C7_MissingTableNoOp ==
    [][(ret'.op = "insert" /\ ret'.table \notin DOMAIN tables) =>
          /\ tables' = tables
          /\ \A col \in DOMAIN ret'.row.data :
                ColumnSearch(tables', ret'.table, col, Debug(ret'.row.data[col])) = <<>>]_vars

C7_Witness ==
    /\ ret.op = "insert"
    /\ ret.table \notin DOMAIN tables
    /\ \E name \in DOMAIN tables : tables[name].rows # <<>>

\* C8: gen_range(min, max) with max <= min ends in a panic and returns no
\* number; with max > min it returns v with min <= v < max.
C8_RangeOrPanic ==
    ret.op = "gen_range" =>
        IF ret.max <= ret.min THEN ret.out.kind = "panic"
        ELSE /\ ret.out.kind = "value"
             /\ IsSmall(ret.out.val)
             /\ ret.min <= ToInt(ret.out.val)
             /\ ToInt(ret.out.val) < ret.max

\* C9: find_linked_to(target) holds every stored document with a link to
\* target, and every document it holds has a link to target.
C9_LinkedExactly ==
    \A target \in Ids :
        LET res == find_linked_to(Store, target)
        IN  /\ \A id \in DOMAIN documents :
                  target \in Range(documents[id].links) => id \in IdsOf(res)
            /\ \A k \in 1..Len(res) : target \in Range(res[k].links)

\* C10: a store step removes no key of tag_index or link_index and leaves
\* every list a prefix of the list it becomes.
C10_AppendOnly ==
    [][/\ \A t \in DOMAIN tag_index :
             t \in DOMAIN tag_index' /\ IsPrefix(tag_index[t], tag_index'[t])
       /\ \A t \in DOMAIN link_index :
             t \in DOMAIN link_index' /\ IsPrefix(link_index[t], link_index'[t])]_vars

\* doc_0 stored with tags {a}, then stored again with tags {b}
C10_Witness ==
    /\ "doc_0" \in DOMAIN documents /\ documents["doc_0"].tags = <<"b">>
    /\ "a" \in DOMAIN tag_index /\ tag_index["a"] = <<"doc_0">>
    /\ "b" \in DOMAIN tag_index /\ tag_index["b"] = <<"doc_0">>

\* C11: the driver makes no gen_range(min, max) call with max <= min in
\* either engine's generation or query loop, so no run ends in an
\* arithmetic failure, whatever num_docs and num_queries are.
C11_PreconditionKept ==
    /\ pc # "panic"
    /\ ret.op = "gen_range" => ret.max > ret.min

====
